---- MODULE Spec2Model ----
(***************************************************************************)
(* Model of anytape's routing core (src/anytape/src/lib.rs): the message   *)
(* path annotation NodeInstance::mark and the dispatch NodeInstance::send  *)
(* with the type-erasure adapter of the protocol executors.                *)
(***************************************************************************)
EXTENDS Integers, Sequences, FiniteSets, TLC

VARIABLES anon, name, address_set, next_cache, protocol_executor,
          message, tasks, marked_at

vars == <<anon, name, address_set, next_cache, protocol_executor,
          message, tasks, marked_at>>

node == <<anon, name, address_set, next_cache, protocol_executor>>

\* ---------------------------------------------------------------- bounds
MaxPath == 3
MaxSends == 2

\* ------------------------------------------------------------ Option<T>
None == <<>>
Some(x) == <<x>>

\* -------------------------------------------------------- address model
Protocol(bytes) == [expr |-> bytes]
Identity(bytes) == [expr |-> bytes]
Address(p, i) == [protocol |-> Protocol(p), identity |-> Identity(i)]

Udp1 == Address("udp", "i1")
Udp2 == Address("udp", "i2")
Ble1 == Address("ble", "i1")
Ble2 == Address("ble", "i2")
Tcp1 == Address("tcp", "i1")
Tcp2 == Address("tcp", "i2")

\* addresses passed to mark as accept_at
AcceptAts == {Udp1, Ble2}
\* addresses passed to send as to
Targets == {Udp2, Ble1, Tcp1}

\* ------------------------------------------------------ message and path
\* a PathNode::new that stamps the hop
PathNode_new_stamped == [name |-> None, address |-> None, ts |-> 1]
PathNode_new == [name |-> None, address |-> None, ts |-> 0]
with_name(self, n) == [self EXCEPT !.name = Some(n)]
with_address(self, a) == [self EXCEPT !.address = Some(a)]

\* messages a caller hands to the node: a locally built one with an empty
\* path, and a relayed one that already carries a foreign hop
FreshMessages ==
    { [destination |-> Udp1, path |-> <<>>, payload |-> <<1>>,
       signature |-> <<7>>, unique_id |-> 1],
      [destination |-> Tcp2,
       path |-> <<[name |-> Some("relay"), address |-> Some(Ble1), ts |-> 5]>>,
       payload |-> <<>>, signature |-> <<8, 9>>, unique_id |-> 2] }

\* ---------------------------------------------------------- node instance
Names == {None, Some("n1")}
Executors == {"exec_a", "exec_b"}
Registries ==
    { [p \in {} |-> "exec_a"],
      (Protocol("udp") :> "exec_a"),
      (Protocol("udp") :> "exec_a") @@ (Protocol("ble") :> "exec_b"),
      (Protocol("udp") :> "exec_a") @@ (Protocol("ble") :> "exec_a") }
AddressSets == { {}, {Udp1} }
NextCaches == { [a \in {} |-> Udp1], (Tcp1 :> Udp2) @@ (Udp2 :> Tcp1) }

self == [anon |-> anon, name |-> name, address_set |-> address_set,
         next_cache |-> next_cache, protocol_executor |-> protocol_executor]

\* a this_node that names the node even when it is anonymous
this_node_named(node_, accept_at) ==
    LET pn == with_address(PathNode_new, accept_at)
    IN  IF node_.name # None THEN with_name(pn, node_.name[1]) ELSE pn

\* NodeInstance::mark, the hop built for this node
this_node(node_, accept_at) ==
    IF node_.anon
    THEN PathNode_new
    ELSE LET pn == with_address(PathNode_new, accept_at)
         IN  IF node_.name # None
             THEN with_name(pn, node_.name[1])
             ELSE pn

\* a mark that puts the hop in front of the path
mark_prepend(node_, accept_at, msg) ==
    [msg EXCEPT !.path = <<this_node(node_, accept_at)>> \o @]

\* a mark that records the message's destination, not accept_at
mark_destination(node_, accept_at, msg) ==
    [msg EXCEPT !.path = Append(@, this_node(node_, msg.destination))]

\* a mark that also clears the signature it invalidated
mark_unsign(node_, accept_at, msg) ==
    [msg EXCEPT !.path = Append(@, this_node(node_, accept_at)),
                !.signature = <<>>]

\* NodeInstance::mark: the message after the call
mark(node_, accept_at, msg) ==
    [msg EXCEPT !.path = Append(@, this_node(node_, accept_at))]

\* ------------------------------------------------------------- executors
\* errors a transport reports; desc is what Display prints
Errors == { [desc |-> "timeout"], [desc |-> "refused"] }
Ok == [tag |-> "Ok"]
Err(e) == [tag |-> "Err", err |-> e]
Outcomes == {Ok} \cup {Err(e) : e \in Errors}

\* Box<dyn Error + Send>: the concrete type is erased, the value is kept
BoxError(e) == [boxed |-> e]
Description(b) == b.boxed.desc

\* an adapter that drops the executor's error
dyn_send_swallow(result) == Ok

\* impl DynProtocolExecutor for T: the result of the boxed future
dyn_send(result) ==
    IF result.tag = "Ok" THEN Ok ELSE Err(BoxError(result.err))

ExecutorError(b) == [variant |-> "ExecutorError", error |-> b]
ProtocolNotSupport(s) == [variant |-> "ProtocolNotSupport", supported |-> s]

\* Result::map_err(SendError::ExecutorError)
map_err(result) ==
    IF result.tag = "Ok" THEN Ok ELSE Err(ExecutorError(result.err))

\* a lookup by the protocol of the message's destination
get_executor_destination(node_, msg, to) ==
    IF msg.destination.protocol \in DOMAIN node_.protocol_executor
    THEN Some(node_.protocol_executor[msg.destination.protocol])
    ELSE None

\* a lookup that resolves to through next_cache first
get_executor_cached(node_, msg, to) ==
    LET hop == IF to \in DOMAIN node_.next_cache THEN node_.next_cache[to] ELSE to
    IN  IF hop.protocol \in DOMAIN node_.protocol_executor
        THEN Some(node_.protocol_executor[hop.protocol])
        ELSE None

\* self.protocol_executor.get(&to.protocol)
get_executor(node_, msg, to) ==
    IF to.protocol \in DOMAIN node_.protocol_executor
    THEN Some(node_.protocol_executor[to.protocol])
    ELSE None

\* a collect that stops after the first key
keys_collect_first(node_) ==
    LET K == DOMAIN node_.protocol_executor
    IN  IF K = {} THEN {<<>>} ELSE { <<k>> : k \in K }

\* self.protocol_executor.keys().cloned().collect(): the keys, each once,
\* in the map's iteration order, which is unspecified
keys_collect(node_) ==
    LET K == DOMAIN node_.protocol_executor
    IN  { s \in [1..Cardinality(K) -> K] :
            \A i, j \in 1..Cardinality(K) : s[i] = s[j] => i = j }

\* ----------------------------------------------------------------- state
\* anon, name, address_set, next_cache, protocol_executor: the NodeInstance
\* message:   the message the caller holds (None once send has consumed it)
\* tasks:     the futures returned by send, each with the executor calls it made
\* marked_at: the accept_at of the mark call that produced the current state
\*            of message, None when the last step on it was not a mark
Tasks == 1..MaxSends
IdleTask == [pc |-> "idle", message |-> None, to |-> None, executor |-> None,
             calls |-> <<>>, outcome |-> None, result |-> None]

Init ==
    /\ anon \in BOOLEAN
    /\ name \in Names
    /\ address_set \in AddressSets
    /\ next_cache \in NextCaches
    /\ protocol_executor \in Registries
    /\ message = None
    /\ tasks = [t \in Tasks |-> IdleTask]
    /\ marked_at = None

\* the caller builds or receives a message
NewMessage(m) ==
    /\ message = None
    /\ message' = Some(m)
    /\ marked_at' = None
    /\ UNCHANGED <<node, tasks>>

\* NodeInstance::mark(&self, accept_at, &mut message)
Mark(accept_at) ==
    /\ message # None
    /\ Len(message[1].path) < MaxPath
    /\ message' = Some(mark(self, accept_at, message[1]))
    /\ marked_at' = Some(accept_at)
    /\ UNCHANGED <<node, tasks>>

\* NodeInstance::send(&self, message, to): the call builds the future, which
\* owns the message and the address; nothing runs before it is polled
SendCall(t, to) ==
    /\ message # None
    /\ tasks[t].pc = "idle"
    /\ \A u \in Tasks : u < t => tasks[u].pc # "idle"
    /\ tasks' = [tasks EXCEPT ![t] =
                    [@ EXCEPT !.pc = "created", !.message = message, !.to = Some(to)]]
    /\ message' = None
    /\ marked_at' = None
    /\ UNCHANGED node

\* first poll, the registry lookup: the executor found, or the error returned
SendLookup(t) ==
    /\ tasks[t].pc = "created"
    /\ LET ex == get_executor(self, tasks[t].message[1], tasks[t].to[1])
       IN  IF ex # None
           THEN tasks' = [tasks EXCEPT ![t] =
                            [@ EXCEPT !.pc = "found", !.executor = ex]]
           ELSE \E s \in keys_collect(self) :
                    tasks' = [tasks EXCEPT ![t] =
                                [@ EXCEPT !.pc = "done",
                                          !.result = Some(Err(ProtocolNotSupport(s)))]]
    /\ UNCHANGED <<node, message, marked_at>>

\* an invocation that hands over the message of the first send in flight
SendInvoke_shared(t) ==
    /\ tasks[t].pc = "found"
    /\ tasks' = [tasks EXCEPT ![t] =
                    [@ EXCEPT !.pc = "awaiting",
                              !.calls = Append(@, [executor |-> tasks[t].executor[1],
                                                   remote |-> tasks[t].to[1].identity,
                                                   message |-> tasks[1].message[1]])]]
    /\ UNCHANGED <<node, message, marked_at>>

\* executor.send(&to.identity, message): the message moves to the executor
SendInvoke(t) ==
    /\ tasks[t].pc = "found"
    /\ tasks' = [tasks EXCEPT ![t] =
                    [@ EXCEPT !.pc = "awaiting",
                              !.calls = Append(@, [executor |-> tasks[t].executor[1],
                                                   remote |-> tasks[t].to[1].identity,
                                                   message |-> tasks[t].message[1]])]]
    /\ UNCHANGED <<node, message, marked_at>>

\* the executor's future completes; the adapter boxes the error and send
\* wraps it
SendComplete(t, outcome) ==
    /\ tasks[t].pc = "awaiting"
    /\ tasks' = [tasks EXCEPT ![t] =
                    [@ EXCEPT !.pc = "done", !.outcome = Some(outcome),
                              !.result = Some(map_err(dyn_send(outcome)))]]
    /\ UNCHANGED <<node, message, marked_at>>

\* marking: messages are built and marked, nothing is sent
NextMark ==
    \/ \E m \in FreshMessages : NewMessage(m)
    \/ \E a \in AcceptAts : Mark(a)

\* dispatch: messages are sent as they were built, by concurrent send calls
NextSend ==
    \/ \E m \in FreshMessages : NewMessage(m)
    \/ \E t \in Tasks, to \in Targets : SendCall(t, to)
    \/ \E t \in Tasks : SendLookup(t)
    \/ \E t \in Tasks : SendInvoke(t)
    \/ \E t \in Tasks, o \in Outcomes : SendComplete(t, o)

\* the node as a whole: marking and dispatch share no mutable state (mark
\* works on the caller's message, send on the one it was given)
Next == NextMark \/ NextSend

SpecMark == Init /\ [][NextMark]_vars
SpecSend == Init /\ [][NextSend]_vars
Spec == Init /\ [][Next]_vars

\* ---------------------------------------------------------------- claims
Last(seq) == seq[Len(seq)]
Range(seq) == { seq[i] : i \in 1..Len(seq) }
\* a step is a mark call: it leaves the message marked and is no step of a send
MarkStep == marked_at' # None /\ tasks' = tasks
Started(t) == tasks[t].pc # "idle"
Registered(t) == tasks[t].to[1].protocol \in DOMAIN protocol_executor
\* the one executor call a send makes
OwnCall(t) == [executor |-> protocol_executor[tasks[t].to[1].protocol],
               remote |-> tasks[t].to[1].identity,
               message |-> tasks[t].message[1]]

\* C1: each mark call makes the path longer by exactly 1, puts the new
\* PathNode at the end, and leaves every PathNode that was in the path at its
\* position with its name, address and ts.
C1_PathAppendOnly ==
    [][MarkStep =>
        LET p == message[1].path
            q == message'[1].path
        IN  /\ Len(q) = Len(p) + 1
            /\ \A i \in 1..Len(p) : q[i] = p[i]
            /\ q[Len(q)] = this_node(self, marked_at'[1])]_vars

\* two marks in a row on a relayed message that came with a foreign hop
C1_Witness ==
    /\ marked_at # None
    /\ message[1].unique_id = 2
    /\ Len(message[1].path) = 3

\* C2: on an anonymous node the PathNode appended by mark has name = None
\* and address = None, whatever accept_at was passed and whether or not the
\* node has a name.
C2_AnonymousMarking ==
    (anon /\ marked_at # None) =>
        /\ Last(message[1].path).name = None
        /\ Last(message[1].path).address = None

C2_Witness ==
    /\ anon
    /\ name # None
    /\ marked_at = Some(Ble2)
    /\ Len(message[1].path) >= 2

\* C3: on a node with anon = false and name = Some(n) the PathNode appended
\* by mark(accept_at, message) has name = Some(n) and address =
\* Some(accept_at), the argument of that call.
C3_NamedMarking ==
    (~anon /\ name # None /\ marked_at # None) =>
        /\ Last(message[1].path).name = name
        /\ Last(message[1].path).address = marked_at

\* accept_at is neither the destination nor one of the node's own addresses
C3_Witness ==
    /\ ~anon
    /\ name # None
    /\ marked_at # None
    /\ marked_at[1] # message[1].destination
    /\ marked_at[1] \notin address_set
    /\ address_set # {}

\* C4: a send to a registered protocol invokes the executor registered for
\* to.protocol exactly once, with to.identity and the message it was given,
\* and makes no other executor call; before the invocation it has made none.
C4_DispatchRouting ==
    \A t \in Tasks :
        (Started(t) /\ Registered(t)) =>
            /\ tasks[t].pc \in {"created", "found"} => tasks[t].calls = <<>>
            /\ tasks[t].pc \in {"awaiting", "done"} => tasks[t].calls = <<OwnCall(t)>>

\* a finished send whose message is destined to another protocol than to,
\* on a node where the two protocols have different executors
C4_Witness ==
    \E t \in Tasks :
        /\ tasks[t].pc = "done"
        /\ Len(tasks[t].calls) = 1
        /\ tasks[t].to[1].protocol = Protocol("ble")
        /\ tasks[t].message[1].destination.protocol = Protocol("udp")
        /\ tasks[t].calls[1].executor = "exec_b"
        /\ protocol_executor[Protocol("udp")] = "exec_a"

\* C5: a send to a protocol with no registered executor returns
\* ProtocolNotSupport whose supported list holds exactly the keys of the
\* registry, each once, and invokes no executor.
C5_ProtocolNotSupport ==
    \A t \in Tasks :
        (Started(t) /\ ~Registered(t) /\ tasks[t].pc # "created") =>
            /\ tasks[t].pc = "done"
            /\ tasks[t].calls = <<>>
            /\ tasks[t].result # None
            /\ tasks[t].result[1].tag = "Err"
            /\ tasks[t].result[1].err.variant = "ProtocolNotSupport"
            /\ LET sup == tasks[t].result[1].err.supported
               IN  /\ Range(sup) = DOMAIN protocol_executor
                   /\ Len(sup) = Cardinality(DOMAIN protocol_executor)

C5_Witness ==
    \E t \in Tasks :
        /\ tasks[t].pc = "done"
        /\ tasks[t].result[1].tag = "Err"
        /\ tasks[t].result[1].err.variant = "ProtocolNotSupport"
        /\ Len(tasks[t].result[1].err.supported) = 2

\* C6: when the executor completes with error E, send returns ExecutorError
\* carrying E with its description; when it completes with success, send
\* returns Ok.
C6_ErrorWrapping ==
    \A t \in Tasks :
        (tasks[t].pc = "done" /\ tasks[t].outcome # None) =>
            LET o == tasks[t].outcome[1]
                r == tasks[t].result[1]
            IN  /\ o.tag = "Ok" => r = Ok
                /\ o.tag = "Err" =>
                      /\ r.tag = "Err"
                      /\ r.err.variant = "ExecutorError"
                      /\ r.err.error.boxed = o.err
                      /\ Description(r.err.error) = o.err.desc

C6_Witness ==
    \E t \in Tasks :
        /\ tasks[t].pc = "done"
        /\ tasks[t].outcome = Some(Err([desc |-> "refused"]))
        /\ tasks[t].result[1].tag = "Err"

\* C7: mark changes only message.path: destination, payload, signature and
\* unique_id of the message and the whole NodeInstance are as before.
C7_MarkFrame ==
    [][MarkStep =>
        /\ message'[1].destination = message[1].destination
        /\ message'[1].payload = message[1].payload
        /\ message'[1].signature = message[1].signature
        /\ message'[1].unique_id = message[1].unique_id
        /\ message'[1].path # message[1].path
        /\ anon' = anon
        /\ name' = name
        /\ address_set' = address_set
        /\ next_cache' = next_cache
        /\ protocol_executor' = protocol_executor]_vars

C7_Witness ==
    /\ marked_at # None
    /\ message[1].signature = <<7>>
    /\ message[1].payload = <<1>>
    /\ address_set # {}
    /\ DOMAIN next_cache # {}
    /\ DOMAIN protocol_executor # {}

\* what a send has done so far: at most one executor call, none when the
\* protocol is unregistered, one and no more after the executor failed, and a
\* result fixed by the registry keys, to.protocol and the executor's outcome
SendOnce(t) ==
    Started(t) =>
        /\ Len(tasks[t].calls) <= 1
        /\ ~Registered(t) => tasks[t].calls = <<>> /\ tasks[t].executor = None
        /\ (tasks[t].pc = "done" /\ Registered(t)) =>
              /\ Len(tasks[t].calls) = 1
              /\ tasks[t].outcome # None
              /\ tasks[t].result[1].tag = tasks[t].outcome[1].tag
        /\ (tasks[t].pc = "done" /\ ~Registered(t)) =>
              tasks[t].result[1].err.variant = "ProtocolNotSupport"

\* C8: a send makes at most one executor invocation, none when the protocol
\* is unregistered and no second one after a failure, and every step of it
\* leaves next_cache, address_set and the registry as they were.
C8_NoRetryNoFallback ==
    [][tasks' # tasks =>
        /\ next_cache' = next_cache
        /\ address_set' = address_set
        /\ protocol_executor' = protocol_executor
        /\ \A t \in Tasks : SendOnce(t)']_vars

\* a failed send to an address that next_cache maps elsewhere, and an
\* unsupported send to an address that next_cache maps to a supported one
C8_Witness ==
    /\ next_cache # [a \in {} |-> Udp1]
    /\ tasks[1].pc = "done"
    /\ tasks[1].to = Some(Udp2)
    /\ tasks[1].outcome # None
    /\ tasks[1].outcome[1].tag = "Err"
    /\ tasks[2].pc = "done"
    /\ tasks[2].to = Some(Tcp1)
    /\ Protocol("udp") \in DOMAIN protocol_executor

\* the result a finished send owes to its own executor call, or to the
\* registry keys
OwnResult(t) ==
    tasks[t].pc = "done" =>
        IF Registered(t)
        THEN /\ tasks[t].outcome # None
             /\ tasks[t].result =
                    Some(IF tasks[t].outcome[1].tag = "Ok"
                         THEN Ok
                         ELSE Err(ExecutorError(BoxError(tasks[t].outcome[1].err))))
        ELSE /\ tasks[t].outcome = None
             /\ tasks[t].result[1].err.variant = "ProtocolNotSupport"
             /\ Range(tasks[t].result[1].err.supported) = DOMAIN protocol_executor

\* C9: with several sends in flight, under every interleaving of their steps,
\* the registry and address_set stay unchanged, a step of one send changes no
\* other send, each send to a registered protocol has made exactly one call,
\* on that protocol's executor with its own message and identity, and each
\* result follows from the send's own outcome.
C9_ConcurrentSends ==
    [][tasks' # tasks =>
        /\ protocol_executor' = protocol_executor
        /\ address_set' = address_set
        /\ \A t \in Tasks :
              tasks'[t] # tasks[t] =>
                  \A u \in Tasks \ {t} : tasks'[u] = tasks[u]
        /\ \A t \in Tasks :
              /\ OwnResult(t)'
              /\ (Started(t) /\ Registered(t)
                    /\ tasks[t].pc \in {"awaiting", "done"})' =>
                        (tasks[t].calls = <<OwnCall(t)>>)']_vars

\* the second send finished while the first, on the same executor with
\* another message, still awaits it
C9_Witness ==
    /\ tasks[1].pc = "awaiting"
    /\ tasks[2].pc = "done"
    /\ tasks[2].outcome # None
    /\ tasks[1].executor = tasks[2].executor
    /\ tasks[1].message # tasks[2].message
    /\ tasks[1].to[1].protocol # tasks[2].to[1].protocol

\* C10: on a node with anon = false and name = None, mark appends a PathNode
\* with name = None and address = Some(accept_at); in every configuration the
\* appended PathNode has ts = 0.
C10_UnnamedMarkingAndTs ==
    marked_at # None =>
        /\ Last(message[1].path).ts = 0
        /\ (~anon /\ name = None) =>
              /\ Last(message[1].path).name = None
              /\ Last(message[1].path).address = marked_at

C10_Witness ==
    /\ ~anon
    /\ name = None
    /\ marked_at = Some(Ble2)
    /\ Last(message[1].path).address = Some(Ble2)
====
